---------------------------- MODULE Spec2Model ----------------------------
(***************************************************************************)
(* BunnyMark (src/src/main.rs): a ggez event handler that keeps a Vec of   *)
(* bunnies, spawns and removes them while mouse buttons are held, moves    *)
(* every bunny once per fixed-rate tick, and draws them either through a   *)
(* SpriteBatch or with one draw call per bunny.                            *)
(*                                                                         *)
(* f32 quantities are fixed-point integers: Unit model units per pixel, so *)
(* GRAVITY = 0.5 is Fx(5) and a product with a non-representable result is *)
(* rounded to the nearest unit, as an f32 product is rounded to the        *)
(* nearest float.  The window, the sprite and INITIAL_BUNNIES are scaled   *)
(* down so that the reachable states can be enumerated.                    *)
(***************************************************************************)
EXTENDS Integers, Sequences, FiniteSets, TLC

\* ------------------------------------------------------------------ scale

\* Units per pixel of the fixed-point stand-in for f32 (Bunny's fields).
Unit == 2

\* Nearest integer to a / b (b > 0), halves rounded up.
RoundDiv(a, b) == (2 * a + b) \div (2 * b)

\* A decimal literal of the source, given in tenths, in model units.
Fx(tenths) == RoundDiv(tenths * Unit, 10)

\* a * (tenths / 10) on fixed-point a, rounded to the nearest unit.
MulF(a, tenths) == RoundDiv(a * tenths, 10)

\* ------------------------------------------------------------- constants

\* const INITIAL_BUNNIES: usize = 100, scaled down.
INITIAL_BUNNIES == 2
\* const WIDTH: u16 = 1280 and HEIGHT: u16 = 720 (pixels), scaled down.
WIDTH == 3
HEIGHT == 4
\* const GRAVITY: f32 = 0.5
GRAVITY == Fx(5)
\* texture.width(), texture.height() of the decoded sprite (pixels).
TextureWidth == 2
TextureHeight == 2

\* max_x, max_y as GameState::new computes them, in model units.
max_x == (WIDTH - TextureWidth) * Unit
max_y == (HEIGHT - TextureHeight) * Unit

\* ggez::graphics::size(ctx).0: the drawable width, in model units.
WindowWidth == WIDTH * Unit

\* ---------------------------------------------------------------- bounds

\* The Vec may grow to INITIAL_BUNNIES + ExtraBunnies bunnies.
ExtraBunnies == 1
MaxBunnies == INITIAL_BUNNIES + ExtraBunnies
\* Ticks run in one behaviour.
MaxTicks == 2
\* Whole tick quanta one call of update may find pending.
MaxPending == 2

\* ---------------------------------------------------------- random source

\* rng.gen::<f32>() lies in [0, 1); the draws below are in tenths.
GenXVel == {4}             \* Bunny::new, x_vel
GenYVel == {2, 9}          \* Bunny::new, y_vel
GenImpulse == {5}          \* the extra bounce
\* rng.gen_range(0.0, width): a float in [lo, hi), in model units; the draw
\* taken is the last unit below hi.
GenRangeF(lo, hi) == IF lo < hi THEN {hi - 1} ELSE {}
\* rng.gen_range(0, n): a usize in [0, n); the empty range panics.
GenRange(lo, hi) == IF lo < hi THEN lo .. (hi - 1) ELSE {}

\* input::mouse::position(ctx): where the cursor may be, in model units:
\* inside the play field, and in the strip right of max_x and below max_y.
Cursors == { <<Unit, Unit>>, <<max_x + Unit, max_y + Unit>> }

\* The keys and mouse buttons pressed and released.  Escape is not among
\* them: it ends the run, and what runs before it is what is explored.
KeyCodes == {"Space", "Back", "LControl", "RControl"}
MouseButtons == {"Left", "Right"}

\* ------------------------------------------------------------------ state

VARIABLES
    bunnies,          \* GameState.bunnies: Vec<Bunny>
    delete_held,      \* GameState.delete_held
    add_held,         \* GameState.add_held
    ctrl_held,        \* GameState.ctrl_held
    click_timer,      \* GameState.click_timer
    bunnybatch,       \* GameState.bunnybatch: the sprites the batch holds
    batched_drawing,  \* GameState.batched_drawing
    continuing,       \* ctx.continuing: FALSE once quit(ctx) was called
    panicked,         \* TRUE once a panic unwound the program
    pc,               \* what event::run's loop does next: "poll" (handle the
                      \* window's events, then update) or "draw"
    acc,              \* the timer's residual, in tick quanta
    ticks,            \* ticks run so far
    frame,            \* the frame presented since update last ran (NoFrame if none)
    last,             \* the last update, draw or clear, and what it did (history)
    toggles,          \* the Space key-downs handled so far, modulo 2 (history)
    held              \* the keys physically down (followed in KeySpec only)

vars == <<bunnies, delete_held, add_held, ctrl_held, click_timer, bunnybatch,
          batched_drawing, continuing, panicked, pc, acc, ticks, frame, last,
          toggles, held>>

flags == <<delete_held, add_held, ctrl_held, batched_drawing>>

\* --------------------------------------------------------------- entities

\* Bunny::new(x, y, rng): r1 and r2 are the two draws of rng.gen::<f32>().
Bunny_new(x, y, r1, r2) ==
    LET x_vel == MulF(r1 * Unit, 5)
        y_vel == MulF(r2 * Unit, 5) - Fx(25)
    IN  [position |-> <<x, y>>, velocity |-> <<x_vel, y_vel>>]


\* ---------------------------------------------------- physics integrator

\* Mutant of BounceX: the velocity is negated and the position left where
\* the move put it.
BounceX_NoClamp(px, vx) ==
    IF px > max_x THEN <<px, vx * (-1)>>
    ELSE IF px < 0 THEN <<px, vx * (-1)>>
    ELSE <<px, vx>>

\* Mutant of BounceX: the position is clamped and the velocity kept.
BounceX_NoFlip(px, vx) ==
    IF px > max_x THEN <<max_x, vx>>
    ELSE IF px < 0 THEN <<0, vx>>
    ELSE <<px, vx>>

\* The horizontal bounce of the integration loop: <<position.x, velocity.x>>
\* from the moved position.x and velocity.x.
BounceX(px, vx) ==
    IF px > max_x THEN <<max_x, vx * (-1)>>
    ELSE IF px < 0 THEN <<0, vx * (-1)>>
    ELSE <<px, vx>>

\* velocity.y *= -0.8
Damp(vy) == MulF(vy, -8)

\* 3.0 + (rng.gen::<f32>() * 4.0), r the draw in tenths.
ExtraBounce(r) == Fx(30) + MulF(r * Unit, 4)

\* The vertical bounce: [y, vy, impulse] from the moved position.y and the
\* velocity.y gravity was added to; coin is rng.gen::<bool>(), r the draw
\* of the impulse.  impulse is what was subtracted after the damping.
BounceY(py, vy, coin, r) ==
    IF py > max_y
    THEN LET imp == IF coin THEN ExtraBounce(r) ELSE 0
         IN  [y |-> max_y, vy |-> Damp(vy) - imp, impulse |-> imp]
    ELSE IF py < 0 THEN [y |-> 0, vy |-> 0, impulse |-> 0]
    ELSE [y |-> py, vy |-> vy, impulse |-> 0]

\* Mutant of Integrate: gravity is added after the bounce, not before it.
Integrate_GravityAfterBounce(b, coin, r) ==
    LET px == b.position[1] + b.velocity[1]
        py == b.position[2] + b.velocity[2]
        h  == BounceX(px, b.velocity[1])
        v  == BounceY(py, b.velocity[2], coin, r)
    IN  [bunny   |-> [position |-> <<h[1], v.y>>,
                      velocity |-> <<h[2], v.vy + GRAVITY>>],
         impulse |-> v.impulse]

\* One pass of the integration loop's body over bunny b.
Integrate(b, coin, r) ==
    LET px == b.position[1] + b.velocity[1]
        py == b.position[2] + b.velocity[2]
        vy == b.velocity[2] + GRAVITY
        h  == BounceX(px, b.velocity[1])
        v  == BounceY(py, vy, coin, r)
    IN  [bunny   |-> [position |-> <<h[1], v.y>>, velocity |-> <<h[2], v.vy>>],
         impulse |-> v.impulse]

\* Whether the loop body draws the coin for b (its floor branch is taken).
HitsFloor(b) == b.position[2] + b.velocity[2] > max_y

\* The outcomes of the loop body for b, over the draws it makes.
IntegrateOne(b) ==
    IF HitsFloor(b)
    THEN {Integrate(b, FALSE, 0)} \cup {Integrate(b, TRUE, r) : r \in GenImpulse}
    ELSE {Integrate(b, FALSE, 0)}

\* for bunny in &mut self.bunnies { ... }: every outcome of the whole loop,
\* a sequence of [bunny, impulse], one entry per bunny.
RECURSIVE IntegrateAll(_)
IntegrateAll(bs) ==
    IF bs = <<>> THEN {<<>>}
    ELSE {<<o>> \o rest : o \in IntegrateOne(Head(bs)), rest \in IntegrateAll(Tail(bs))}

\* ------------------------------------------------- population controller

\* ctrl + add: n pushes of Bunny::new(gen_range(0.0, width), 0.0, rng).
RECURSIVE Burst(_, _)
Burst(bs, n) ==
    IF n = 0 THEN {bs}
    ELSE UNION { Burst(Append(bs, Bunny_new(x, 0, r1, r2)), n - 1) :
                   x \in GenRangeF(0, WindowWidth), r1 \in GenXVel, r2 \in GenYVel }

\* Mutant of AddPhase: the ctrl branch pushes one bunny too few.
AddPhase_ShortBurst(bs, add, ctrl) ==
    IF add
    THEN IF ctrl
         THEN {[bunnies |-> s, cursor |-> <<>>] : s \in Burst(bs, INITIAL_BUNNIES - 1)}
         ELSE {[bunnies |-> Append(bs, Bunny_new(pos[1], pos[2], r1, r2)), cursor |-> pos] :
                 pos \in Cursors, r1 \in GenXVel, r2 \in GenYVel}
    ELSE {[bunnies |-> bs, cursor |-> <<>>]}

\* Mutant of AddPhase: the cursor's coordinates are passed in the wrong order.
AddPhase_SwappedCursor(bs, add, ctrl) ==
    IF add
    THEN IF ctrl
         THEN {[bunnies |-> s, cursor |-> <<>>] : s \in Burst(bs, INITIAL_BUNNIES)}
         ELSE {[bunnies |-> Append(bs, Bunny_new(pos[2], pos[1], r1, r2)), cursor |-> pos] :
                 pos \in Cursors, r1 \in GenXVel, r2 \in GenYVel}
    ELSE {[bunnies |-> bs, cursor |-> <<>>]}

\* The add phase: every [bunnies, cursor] it can leave (cursor is <<>> when
\* position(ctx) was not read).
AddPhase(bs, add, ctrl) ==
    IF add
    THEN IF ctrl
         THEN {[bunnies |-> s, cursor |-> <<>>] : s \in Burst(bs, INITIAL_BUNNIES)}
         ELSE {[bunnies |-> Append(bs, Bunny_new(pos[1], pos[2], r1, r2)), cursor |-> pos] :
                 pos \in Cursors, r1 \in GenXVel, r2 \in GenYVel}
    ELSE {[bunnies |-> bs, cursor |-> <<>>]}

\* Vec::remove(index), index counted from 0.
Remove(bs, index) == SubSeq(bs, 1, index) \o SubSeq(bs, index + 2, Len(bs))

\* One removal at a random index of [0, n): every [bunnies, ok] outcome; ok
\* is FALSE when gen_range panics on an empty range or remove on an index
\* that is out of bounds.
RemoveRandom(bs, n) ==
    IF GenRange(0, n) = {} THEN {[bunnies |-> bs, ok |-> FALSE]}
    ELSE {IF index < Len(bs) THEN [bunnies |-> Remove(bs, index), ok |-> TRUE]
                             ELSE [bunnies |-> bs, ok |-> FALSE] : index \in GenRange(0, n)}

\* for _ in 0..count { remove(gen_range(0, self.bunnies.len())) }
RECURSIVE RemoveMany(_, _)
RemoveMany(bs, count) ==
    IF count = 0 THEN {[bunnies |-> bs, ok |-> TRUE]}
    ELSE UNION { IF o.ok THEN RemoveMany(o.bunnies, count - 1) ELSE {o} :
                   o \in RemoveRandom(bs, Len(bs)) }

\* Mutant of DeleteCount: what would remain is taken for what to remove.
DeleteCount_Remaining(bunny_count) ==
    IF bunny_count > INITIAL_BUNNIES THEN bunny_count - INITIAL_BUNNIES ELSE bunny_count

\* Mutant of DeleteCount: INITIAL_BUNNIES removals whatever the Vec holds.
DeleteCount_NoMin(bunny_count) == INITIAL_BUNNIES

\* The count of the ctrl branch of the delete phase.
DeleteCount(bunny_count) ==
    IF bunny_count > INITIAL_BUNNIES THEN INITIAL_BUNNIES ELSE bunny_count

\* Mutant of DeletePhase: the phase does not look at delete_held.
DeletePhase_IgnoresFlag(bs, del, ctrl) ==
    LET bunny_count == Len(bs)
    IN  IF ctrl
        THEN RemoveMany(bs, DeleteCount(bunny_count))
        ELSE IF bunny_count > 0 THEN RemoveRandom(bs, bunny_count)
             ELSE {[bunnies |-> bs, ok |-> TRUE]}

\* The delete phase on the Vec the add phase left.
DeletePhase(bs, del, ctrl) ==
    LET bunny_count == Len(bs)
    IN  IF del
        THEN IF ctrl
             THEN RemoveMany(bs, DeleteCount(bunny_count))
             ELSE IF bunny_count > 0 THEN RemoveRandom(bs, bunny_count)
                  ELSE {[bunnies |-> bs, ok |-> TRUE]}
        ELSE {[bunnies |-> bs, ok |-> TRUE]}


\* ---------------------------------------------------------------- history

NoFrame == [calls |-> <<>>, presented |-> FALSE]

\* last.op is the last of "update", "draw", "clear" to have run ("init" before
\* any); ran counts the ticks of that update, and count, cursor, entered and
\* impulse describe its last tick: the Vec's length before it, the cursor its
\* add phase read, the bunnies as they entered its integration loop and the
\* extra impulse each was given.  For a clear or a draw, count is the Vec's
\* length before it.  cleared: a clear was handled in the poll phase that
\* preceded this update, or the update of this frame.  pending: the whole
\* tick quanta the timer held when that update was entered.
NoLast == [op |-> "init", ran |-> 0, pending |-> 0, count |-> 0, cursor |-> <<>>,
           entered |-> <<>>, impulse |-> <<>>, cleared |-> FALSE]

\* ------------------------------------------------------------------- Init

\* for _ in 0..INITIAL_BUNNIES { bunnies.push(Bunny::new(0.0, 0.0, &mut rng)) }
RECURSIVE InitialBunnies(_, _)
InitialBunnies(bs, n) ==
    IF n = 0 THEN {bs}
    ELSE UNION { InitialBunnies(Append(bs, Bunny_new(0, 0, r1, r2)), n - 1) :
                   r1 \in GenXVel, r2 \in GenYVel }

\* GameState::new
Init ==
    /\ bunnies \in InitialBunnies(<<>>, INITIAL_BUNNIES)
    /\ delete_held = FALSE
    /\ add_held = FALSE
    /\ ctrl_held = FALSE
    /\ click_timer = 0
    /\ bunnybatch = <<>>
    /\ batched_drawing = TRUE
    /\ continuing = TRUE
    /\ panicked = FALSE
    /\ pc = "poll"
    /\ acc = 0
    /\ ticks = 0
    /\ frame = NoFrame
    /\ last = NoLast
    /\ toggles = 0
    /\ held = {}

\* event::run polls the window's events and calls their handlers, as long as
\* no handler asked to quit.
Polling == continuing /\ ~panicked /\ pc = "poll"

\* ----------------------------------------------------------------- update

\* The timer residual one tick takes (1 / DESIRED_FPS), in acc's units.
TickQuantum == 1

\* timer::check_update_time(ctx, DESIRED_FPS) on residual a: whether a tick
\* is due, and the residual it leaves.
CheckUpdateTime(a) ==
    IF a >= TickQuantum THEN [due |-> TRUE, acc |-> a - TickQuantum]
                        ELSE [due |-> FALSE, acc |-> a]

\* if self.click_timer > 0 { self.click_timer -= 1; }
ClickTimer(ct) == IF ct > 0 THEN ct - 1 ELSE ct

\* Mutant of TickBody: the delete phase runs before the add phase.
TickBody_DeleteFirst(st, add, del, ctrl) ==
    IF add /\ Len(st.bunnies) + (IF ctrl THEN INITIAL_BUNNIES ELSE 1) > MaxBunnies
    THEN {}
    ELSE UNION {
           IF d.ok
           THEN UNION { {[bunnies |-> [i \in 1 .. Len(o) |-> o[i].bunny],
                          click_timer |-> ClickTimer(st.click_timer),
                          acc |-> st.acc, ok |-> TRUE, ran |-> st.ran + 1,
                          hist |-> [count |-> Len(st.bunnies), cursor |-> a.cursor,
                                    entered |-> a.bunnies,
                                    impulse |-> [i \in 1 .. Len(o) |-> o[i].impulse]]] :
                           o \in IntegrateAll(a.bunnies)} :
                        a \in AddPhase(d.bunnies, add, ctrl) }
           ELSE {[bunnies |-> d.bunnies,
                  click_timer |-> ClickTimer(st.click_timer),
                  acc |-> st.acc, ok |-> FALSE, ran |-> st.ran + 1,
                  hist |-> [count |-> Len(st.bunnies), cursor |-> <<>>,
                            entered |-> <<>>, impulse |-> <<>>]]} :
           d \in DeletePhase(st.bunnies, del, ctrl) }

\* Mutant of TickBody: the integration loop runs before the add and delete
\* phases, so that a bunny spawned in a tick is first moved in the next.
TickBody_IntegrateFirst(st, add, del, ctrl) ==
    IF add /\ Len(st.bunnies) + (IF ctrl THEN INITIAL_BUNNIES ELSE 1) > MaxBunnies
    THEN {}
    ELSE UNION { UNION {
           {[bunnies |-> d.bunnies,
             click_timer |-> ClickTimer(st.click_timer),
             acc |-> st.acc, ok |-> d.ok, ran |-> st.ran + 1,
             hist |-> [count |-> Len(st.bunnies), cursor |-> a.cursor,
                       entered |-> st.bunnies,
                       impulse |-> [i \in 1 .. Len(o) |-> o[i].impulse]]] :
              d \in DeletePhase(a.bunnies, del, ctrl)} :
           a \in AddPhase([i \in 1 .. Len(o) |-> o[i].bunny], add, ctrl) } :
           o \in IntegrateAll(st.bunnies) }

\* The body of update's while loop on state st = [bunnies, click_timer, acc,
\* ok, ran, hist]: the click timer, the add phase, the delete phase, the
\* integration loop.  Every state it can leave; none when the Vec would
\* outgrow MaxBunnies.  A panic (ok = FALSE) unwinds before the integration.
TickBody(st, add, del, ctrl) ==
    IF add /\ Len(st.bunnies) + (IF ctrl THEN INITIAL_BUNNIES ELSE 1) > MaxBunnies
    THEN {}
    ELSE UNION { UNION {
           IF d.ok
           THEN {[bunnies |-> [i \in 1 .. Len(o) |-> o[i].bunny],
                  click_timer |-> ClickTimer(st.click_timer),
                  acc |-> st.acc, ok |-> TRUE, ran |-> st.ran + 1,
                  hist |-> [count |-> Len(st.bunnies), cursor |-> a.cursor,
                            entered |-> d.bunnies,
                            impulse |-> [i \in 1 .. Len(o) |-> o[i].impulse]]] :
                   o \in IntegrateAll(d.bunnies)}
           ELSE {[bunnies |-> d.bunnies,
                  click_timer |-> ClickTimer(st.click_timer),
                  acc |-> st.acc, ok |-> FALSE, ran |-> st.ran + 1,
                  hist |-> [count |-> Len(st.bunnies), cursor |-> a.cursor,
                            entered |-> <<>>, impulse |-> <<>>]]} :
           d \in DeletePhase(a.bunnies, del, ctrl) } :
           a \in AddPhase(st.bunnies, add, ctrl) }

\* Mutant of UpdateLoop: an if in place of the while, one tick at most.
UpdateLoop_RunsOnce(st, add, del, ctrl) ==
    LET t == CheckUpdateTime(st.acc)
    IN  IF st.ok /\ t.due
        THEN TickBody([st EXCEPT !.acc = t.acc], add, del, ctrl)
        ELSE {st}

\* while timer::check_update_time(ctx, DESIRED_FPS) { ... }: every state the
\* loop can end in.
RECURSIVE UpdateLoop(_, _, _, _)
UpdateLoop(st, add, del, ctrl) ==
    LET t == CheckUpdateTime(st.acc)
    IN  IF st.ok /\ t.due
        THEN UNION { UpdateLoop(nx, add, del, ctrl) :
                       nx \in TickBody([st EXCEPT !.acc = t.acc], add, del, ctrl) }
        ELSE {st}

\* Mutant of Update: a call that ran a tick takes the press of the add
\* button for consumed and resets add_held.
Update_ConsumesClick ==
    /\ Polling
    /\ \E dt \in 0 .. (MaxPending * TickQuantum) :
         /\ (acc + dt) \div TickQuantum <= MaxPending
         /\ ticks + (acc + dt) \div TickQuantum <= MaxTicks
         /\ \E end \in UpdateLoop([bunnies |-> bunnies, click_timer |-> click_timer,
                                   acc |-> acc + dt, ok |-> TRUE, ran |-> 0,
                                   hist |-> [count |-> Len(bunnies), cursor |-> <<>>,
                                             entered |-> <<>>, impulse |-> <<>>]],
                                  add_held, delete_held, ctrl_held) :
              /\ bunnies' = end.bunnies
              /\ click_timer' = end.click_timer
              /\ acc' = end.acc
              /\ panicked' = ~end.ok
              /\ ticks' = ticks + end.ran
              /\ last' = [op |-> "update", ran |-> end.ran,
                          pending |-> (acc + dt) \div TickQuantum,
                          count |-> end.hist.count,
                          cursor |-> end.hist.cursor, entered |-> end.hist.entered,
                          impulse |-> end.hist.impulse, cleared |-> (last.op = "clear")]
    /\ pc' = "draw"
    /\ frame' = NoFrame
    /\ add_held' = IF last'.ran > 0 THEN FALSE ELSE add_held
    /\ UNCHANGED <<delete_held, ctrl_held, batched_drawing, bunnybatch, continuing,
                   toggles, held>>

\* The events are handled: event::run calls GameState::update, the timer
\* holding the residual and the time dt the last frame took.
Update ==
    /\ Polling
    /\ \E dt \in 0 .. (MaxPending * TickQuantum) :
         /\ (acc + dt) \div TickQuantum <= MaxPending
         /\ ticks + (acc + dt) \div TickQuantum <= MaxTicks
         /\ \E end \in UpdateLoop([bunnies |-> bunnies, click_timer |-> click_timer,
                                   acc |-> acc + dt, ok |-> TRUE, ran |-> 0,
                                   hist |-> [count |-> Len(bunnies), cursor |-> <<>>,
                                             entered |-> <<>>, impulse |-> <<>>]],
                                  add_held, delete_held, ctrl_held) :
              /\ bunnies' = end.bunnies
              /\ click_timer' = end.click_timer
              /\ acc' = end.acc
              /\ panicked' = ~end.ok
              /\ ticks' = ticks + end.ran
              /\ last' = [op |-> "update", ran |-> end.ran,
                          pending |-> (acc + dt) \div TickQuantum,
                          count |-> end.hist.count,
                          cursor |-> end.hist.cursor, entered |-> end.hist.entered,
                          impulse |-> end.hist.impulse, cleared |-> (last.op = "clear")]
    /\ pc' = "draw"
    /\ frame' = NoFrame
    /\ UNCHANGED <<flags, bunnybatch, continuing, toggles, held>>

\* ------------------------------------------------------------------- draw

\* SpriteBatch::clear
BatchClear(batch) == <<>>

\* SpriteBatch::add((position,))
BatchAdd(batch, position) == Append(batch, position)

\* for bunny in &self.bunnies { self.bunnybatch.add((bunny.position,)) }
RECURSIVE BatchFill(_, _)
BatchFill(batch, bs) ==
    IF bs = <<>> THEN batch
    ELSE BatchFill(BatchAdd(batch, Head(bs).position), Tail(bs))

\* Mutant of BatchedBatch: the batch is filled without being cleared first.
BatchedBatch_NoClear(batch, bs) == BatchFill(batch, bs)

\* The batched path: the batch as the frame leaves it.
BatchedBatch(batch, bs) == BatchFill(BatchClear(batch), bs)

\* Mutant of DrawCalls: the batch is drawn in the naive path too.
DrawCalls_BatchAlways(batched, batch, bs) ==
    << [image |-> "bunnybatch", sprites |-> batch] >>
    \o (IF batched THEN <<>>
        ELSE [i \in 1 .. Len(bs) |-> [image |-> "texture", sprites |-> << bs[i].position >>]])

\* Mutant of DrawCalls: an empty batch is not submitted.
DrawCalls_SkipsEmptyBatch(batched, batch, bs) ==
    IF batched
    THEN IF batch = <<>> THEN <<>> ELSE << [image |-> "bunnybatch", sprites |-> batch] >>
    ELSE [i \in 1 .. Len(bs) |-> [image |-> "texture", sprites |-> << bs[i].position >>]]

\* The graphics::draw calls of one frame; each draws image at the sprites.
DrawCalls(batched, batch, bs) ==
    IF batched
    THEN << [image |-> "bunnybatch", sprites |-> batch] >>
    ELSE [i \in 1 .. Len(bs) |-> [image |-> "texture", sprites |-> << bs[i].position >>]]

\* Mutant of Draw: the batched path drains the Vec into the batch.
Draw_DrainsVec ==
    /\ ~panicked /\ pc = "draw"
    /\ pc' = "poll"
    /\ bunnybatch' = IF batched_drawing THEN BatchedBatch(bunnybatch, bunnies) ELSE bunnybatch
    /\ frame' = [calls |-> DrawCalls(batched_drawing, bunnybatch', bunnies), presented |-> TRUE]
    /\ last' = [NoLast EXCEPT !.op = "draw", !.count = Len(bunnies),
                               !.cleared = last.cleared]
    /\ bunnies' = IF batched_drawing THEN <<>> ELSE bunnies
    /\ UNCHANGED <<flags, click_timer, continuing, panicked, acc, ticks, toggles, held>>

\* GameState::draw
Draw ==
    /\ ~panicked /\ pc = "draw"
    /\ pc' = "poll"
    /\ bunnybatch' = IF batched_drawing THEN BatchedBatch(bunnybatch, bunnies) ELSE bunnybatch
    /\ frame' = [calls |-> DrawCalls(batched_drawing, bunnybatch', bunnies), presented |-> TRUE]
    /\ last' = [NoLast EXCEPT !.op = "draw", !.count = Len(bunnies),
                               !.cleared = last.cleared]
    /\ UNCHANGED <<bunnies, flags, click_timer, continuing, panicked, acc, ticks,
                   toggles, held>>

\* ------------------------------------------------------------------ input

\* Mutant of key_down_event: Back pops one bunny instead of clearing the Vec.
key_down_event_Pop(keycode) ==
    /\ Polling
    /\ batched_drawing' = IF keycode = "Space" THEN ~batched_drawing ELSE batched_drawing
    /\ bunnies' = IF keycode = "Back" /\ bunnies # <<>>
                  THEN SubSeq(bunnies, 1, Len(bunnies) - 1) ELSE bunnies
    /\ continuing' = IF keycode = "Escape" THEN FALSE ELSE continuing
    /\ ctrl_held' = IF keycode = "LControl" \/ keycode = "RControl" THEN TRUE ELSE ctrl_held
    /\ last' = IF keycode = "Back"
               THEN [NoLast EXCEPT !.op = "clear", !.count = Len(bunnies), !.cleared = TRUE]
               ELSE last
    /\ toggles' = IF keycode = "Space" THEN 1 - toggles ELSE toggles
    /\ UNCHANGED <<delete_held, add_held, click_timer, bunnybatch, panicked, pc, acc,
                   ticks, frame>>

\* GameState::key_down_event
key_down_event(keycode) ==
    /\ Polling
    /\ batched_drawing' = IF keycode = "Space" THEN ~batched_drawing ELSE batched_drawing
    /\ bunnies' = IF keycode = "Back" THEN <<>> ELSE bunnies
    /\ continuing' = IF keycode = "Escape" THEN FALSE ELSE continuing
    /\ ctrl_held' = IF keycode = "LControl" \/ keycode = "RControl" THEN TRUE ELSE ctrl_held
    /\ last' = IF keycode = "Back"
               THEN [NoLast EXCEPT !.op = "clear", !.count = Len(bunnies), !.cleared = TRUE]
               ELSE last
    /\ toggles' = IF keycode = "Space" THEN 1 - toggles ELSE toggles
    /\ UNCHANGED <<delete_held, add_held, click_timer, bunnybatch, panicked, pc, acc,
                   ticks, frame>>

\* Mutant of key_up_event: the release of Space flips the draw mode as well.
key_up_event_Toggles(keycode) ==
    /\ Polling
    /\ ctrl_held' = IF keycode = "LControl" \/ keycode = "RControl" THEN FALSE ELSE ctrl_held
    /\ batched_drawing' = IF keycode = "Space" THEN ~batched_drawing ELSE batched_drawing
    /\ UNCHANGED <<bunnies, delete_held, add_held, click_timer, bunnybatch,
                   continuing, panicked, pc, acc, ticks, frame, last, toggles>>

\* GameState::key_up_event
key_up_event(keycode) ==
    /\ Polling
    /\ ctrl_held' = IF keycode = "LControl" \/ keycode = "RControl" THEN FALSE ELSE ctrl_held
    /\ UNCHANGED <<bunnies, delete_held, add_held, batched_drawing, click_timer, bunnybatch,
                   continuing, panicked, pc, acc, ticks, frame, last, toggles>>

\* GameState::mouse_button_down_event
mouse_button_down_event(button) ==
    /\ Polling
    /\ add_held' = IF button = "Left" THEN TRUE ELSE add_held
    /\ delete_held' = IF button = "Right" THEN TRUE ELSE delete_held
    /\ UNCHANGED <<bunnies, ctrl_held, batched_drawing, click_timer, bunnybatch,
                   continuing, panicked, pc, acc, ticks, frame, last, toggles, held>>

\* GameState::mouse_button_up_event
mouse_button_up_event(button) ==
    /\ Polling
    /\ delete_held' = IF button = "Right" THEN FALSE ELSE delete_held
    /\ add_held' = IF button = "Left" THEN FALSE ELSE add_held
    /\ UNCHANGED <<bunnies, ctrl_held, batched_drawing, click_timer, bunnybatch,
                   continuing, panicked, pc, acc, ticks, frame, last, toggles, held>>

\* The window's events as event::run hands them to the handlers: under Spec
\* key events come in any order and the keyboard is not followed.
KeyDown == \E keycode \in KeyCodes : key_down_event(keycode) /\ UNCHANGED held
KeyUp == \E keycode \in KeyCodes : key_up_event(keycode) /\ UNCHANGED held
MouseDown == \E button \in MouseButtons : mouse_button_down_event(button)
MouseUp == \E button \in MouseButtons : mouse_button_up_event(button)

Next ==
    \/ Update
    \/ Draw
    \/ KeyDown
    \/ KeyUp
    \/ MouseDown
    \/ MouseUp

Spec == Init /\ [][Next]_vars

\* --------------------------------------------------------------- keyboard

\* A key that was up goes down: the window hands event::run a key-down with
\* repeat = false, and event::run calls key_down_event.
KeyPress ==
    \E keycode \in KeyCodes \ held :
        /\ held' = held \cup {keycode}
        /\ key_down_event(keycode)

\* A key stays down: the window repeats its key-down (repeat = true), and
\* event::run calls key_down_event again; _repeat is not read.
KeyRepeat ==
    \E keycode \in held :
        /\ held' = held
        /\ key_down_event(keycode)

\* A key that was down goes up: event::run calls key_up_event.
KeyRelease ==
    \E keycode \in held :
        /\ held' = held \ {keycode}
        /\ key_up_event(keycode)

\* event::run with the keyboard followed: a key-up comes only for a key that
\* is down, and the mouse buttons are left alone.
KeyNext ==
    \/ Update
    \/ Draw
    \/ KeyPress
    \/ KeyRepeat
    \/ KeyRelease

KeySpec == Init /\ [][KeyNext]_vars

\* ----------------------------------------------------------------- claims

\* update has just returned after running at least one tick: the flags are
\* those its ticks read, and last describes its last tick.
Ticked == pc = "draw" /\ last.op = "update" /\ last.ran > 0 /\ ~panicked

InBounds(b) ==
    /\ 0 <= b.position[1] /\ b.position[1] <= max_x
    /\ 0 <= b.position[2] /\ b.position[2] <= max_y

Clamp(v, lo, hi) == IF v < lo THEN lo ELSE IF v > hi THEN hi ELSE v

\* x is p / 10 to within half a model unit (the rounding of a product).
Near(x, p) == 2 * (10 * x - p) <= 10 /\ 2 * (p - 10 * x) <= 10

\* The sprites of a frame, in the order they were drawn.
RECURSIVE Sprites(_)
Sprites(calls) == IF calls = <<>> THEN <<>> ELSE Head(calls).sprites \o Sprites(Tail(calls))

Positions(bs) == [i \in 1 .. Len(bs) |-> bs[i].position]

\* How often e occurs in sequence q.
Occurrences(q, e) == Cardinality({i \in 1 .. Len(q) : q[i] = e})

\* The same elements, each as often, in any order.
SameMultiset(q, r) ==
    /\ Len(q) = Len(r)
    /\ \A i \in 1 .. Len(q) : Occurrences(q, q[i]) = Occurrences(r, q[i])

\* q is r with some elements removed.
RECURSIVE IsSubSeq(_, _)
IsSubSeq(q, r) ==
    IF q = <<>> THEN TRUE
    ELSE IF r = <<>> THEN FALSE
    ELSE IF Head(q) = Head(r) THEN IsSubSeq(Tail(q), Tail(r)) \/ IsSubSeq(q, Tail(r))
    ELSE IsSubSeq(q, Tail(r))

\* C1: after the integration step of a tick every bunny of the Vec lies within
\* 0 <= position.x <= max_x and 0 <= position.y <= max_y, wherever it was
\* spawned and whatever its velocity.
C1_BoundaryClamp ==
    Ticked => \A i \in 1 .. Len(bunnies) : InBounds(bunnies[i])

\* C1 witness: a bunny entered the integration loop right of max_x and below
\* max_y, another left it at the ceiling, and all are in bounds.
C1_Witness ==
    /\ Ticked
    /\ \E i \in 1 .. Len(bunnies) :
         /\ last.entered[i].position[1] > max_x
         /\ last.entered[i].position[2] > max_y
         /\ InBounds(bunnies[i])
    /\ \E j \in 1 .. Len(bunnies) :
         /\ last.entered[j].position[2] + last.entered[j].velocity[2] < 0
         /\ bunnies[j].position[2] = 0

\* A tick with ctrl + add and no delete has just run on an empty Vec.
BurstFromEmpty ==
    Ticked /\ add_held /\ ctrl_held /\ ~delete_held /\ last.count = 0

\* C2 as stated: after a ctrl + add tick on an empty Vec there are exactly
\* INITIAL_BUNNIES bunnies, each with position.y = 0 and position.x in
\* [0, window width) when the tick has completed.
C2_AsStated ==
    BurstFromEmpty =>
        /\ Len(bunnies) = INITIAL_BUNNIES
        /\ \A i \in 1 .. Len(bunnies) :
             /\ bunnies[i].position[2] = 0
             /\ 0 <= bunnies[i].position[1] /\ bunnies[i].position[1] < WindowWidth

\* C2 amended: the tick pushes exactly INITIAL_BUNNIES bunnies, each spawned
\* at y = 0 and x in [0, window width); its integration loop has then moved
\* each by its velocity, so that at the end of the tick position.y is the
\* spawn velocity.y clamped to [0, max_y], below 2.5, and position.x is within
\* [0, max_x].
C2_BurstSpawnedThenMoved ==
    BurstFromEmpty =>
        /\ Len(bunnies) = INITIAL_BUNNIES
        /\ Len(last.entered) = INITIAL_BUNNIES
        /\ \A i \in 1 .. Len(bunnies) :
             /\ last.entered[i].position[2] = 0
             /\ 0 <= last.entered[i].position[1]
             /\ last.entered[i].position[1] < WindowWidth
             /\ bunnies[i].position[2] = Clamp(last.entered[i].velocity[2], 0, max_y)
             /\ bunnies[i].position[2] < Fx(25)
             /\ 0 <= bunnies[i].position[1] /\ bunnies[i].position[1] <= max_x

\* C2 witness: such a tick has run and left a bunny below the top edge.
C2_Witness ==
    /\ BurstFromEmpty
    /\ Len(bunnies) = INITIAL_BUNNIES
    /\ \E i \in 1 .. Len(bunnies) : bunnies[i].position[2] > 0

\* A tick with add, without ctrl and delete, has just run.
SingleAdd == Ticked /\ add_held /\ ~ctrl_held /\ ~delete_held

\* C3 as stated: an add tick without ctrl adds exactly one bunny, and that
\* bunny is at the cursor coordinate read during the tick.
C3_AsStated ==
    SingleAdd =>
        /\ Len(bunnies) = last.count + 1
        /\ bunnies[Len(bunnies)].position = last.cursor

\* C3 amended: the tick adds exactly one bunny, spawned at the cursor
\* coordinate read during the tick; its integration loop has then moved the
\* bunny one step, to cursor + velocity clamped to [0, max_x] x [0, max_y].
C3_OneSpawnedAtCursorThenMoved ==
    SingleAdd =>
        /\ Len(bunnies) = last.count + 1
        /\ Len(last.entered) = last.count + 1
        /\ last.entered[last.count + 1].position = last.cursor
        /\ LET e == last.entered[last.count + 1]
           IN  bunnies[last.count + 1].position =
                 << Clamp(last.cursor[1] + e.velocity[1], 0, max_x),
                    Clamp(last.cursor[2] + e.velocity[2], 0, max_y) >>

\* C3 witness: such a tick has run on a Vec that held bunnies, with the
\* cursor inside the field.
C3_Witness ==
    /\ SingleAdd
    /\ last.count = INITIAL_BUNNIES
    /\ Len(bunnies) = INITIAL_BUNNIES + 1
    /\ last.cursor = <<Unit, Unit>>

\* C4: an update of one tick with ctrl + delete and no add, on a Vec of N
\* bunnies, leaves none when N <= INITIAL_BUNNIES and N - INITIAL_BUNNIES
\* otherwise, and the bunnies that entered its integration loop are the
\* Vec of before with min(INITIAL_BUNNIES, N) bunnies removed.
C4_CtrlDeleteCount ==
    [][ (pc = "poll" /\ pc' = "draw" /\ last'.ran = 1 /\ ~panicked'
           /\ delete_held /\ ctrl_held /\ ~add_held)
        => /\ Len(bunnies') = IF Len(bunnies) <= INITIAL_BUNNIES THEN 0
                              ELSE Len(bunnies) - INITIAL_BUNNIES
           /\ Len(last'.entered) = Len(bunnies')
           /\ last'.count = Len(bunnies)
           /\ IsSubSeq(last'.entered, bunnies) ]_vars

\* C4 witness: a ctrl + delete tick has run on more than INITIAL_BUNNIES
\* bunnies and left the rest.
C4_Witness ==
    /\ Ticked /\ delete_held /\ ctrl_held /\ ~add_held
    /\ last.count > INITIAL_BUNNIES
    /\ Len(bunnies) = last.count - INITIAL_BUNNIES

\* C5 as stated: a bunny that enters the integration step with position.y >
\* max_y and velocity.y = v leaves it with position.y = max_y and, before the
\* extra impulse, velocity.y = -0.8 * v.
C5_AsStated ==
    Ticked =>
        \A i \in 1 .. Len(bunnies) :
            last.entered[i].position[2] > max_y =>
                /\ bunnies[i].position[2] = max_y
                /\ Near(bunnies[i].velocity[2] + last.impulse[i],
                        -8 * last.entered[i].velocity[2])

\* C5 amended: a bunny whose position.y exceeds max_y once the step has
\* added its velocity v to it leaves the step with position.y = max_y and,
\* before the extra impulse, velocity.y = -0.8 * (v + GRAVITY): gravity is
\* added before the bounce damps the velocity.
C5_FloorBounceAfterGravity ==
    Ticked =>
        \A i \in 1 .. Len(bunnies) :
            last.entered[i].position[2] + last.entered[i].velocity[2] > max_y =>
                /\ bunnies[i].position[2] = max_y
                /\ Near(bunnies[i].velocity[2] + last.impulse[i],
                        -8 * (last.entered[i].velocity[2] + GRAVITY))

\* C5 witness: a bunny entered below max_y, hit the floor and was given the
\* extra impulse.
C5_Witness ==
    /\ Ticked
    /\ \E i \in 1 .. Len(bunnies) :
         /\ last.entered[i].position[2] > max_y
         /\ last.entered[i].position[2] + last.entered[i].velocity[2] > max_y
         /\ last.impulse[i] > 0
         /\ bunnies[i].position[2] = max_y

\* C6: the sprites a frame draws are, as a multiset, the positions of the
\* bunnies in the Vec, in the batched and in the naive path alike: one per
\* bunny, none left over from an earlier frame.
C6_FrameDrawsEveryBunnyOnce ==
    last.op = "draw" =>
        /\ frame.presented
        /\ SameMultiset(Sprites(frame.calls), Positions(bunnies))

\* C6 witness: a batched frame of several bunnies was drawn after ticks ran.
C6_Witness ==
    /\ last.op = "draw"
    /\ Len(bunnies) > 1
    /\ ticks > 0
    /\ Len(frame.calls) = 1
    /\ frame.calls[1].image = "bunnybatch"
    /\ Len(frame.calls[1].sprites) = Len(bunnies)

\* C7: a clear key-down empties the Vec at once, from every length and under
\* every combination of the flags, and changes none of the flags.
C7_ClearEmptiesAtOnce ==
    [][ (last'.op = "clear" /\ last' # last)
        => /\ bunnies' = <<>>
           /\ last'.count = Len(bunnies)
           /\ UNCHANGED flags ]_vars

\* C7 witness: a full Vec was cleared with every flag set and naive drawing.
C7_Witness ==
    /\ last.op = "clear"
    /\ last.count = MaxBunnies
    /\ bunnies = <<>>
    /\ add_held /\ delete_held /\ ctrl_held /\ ~batched_drawing

C9_DeleteNeverFails ==
    /\ ~panicked
    /\ (Ticked /\ delete_held /\ ~add_held /\ last.count = 0) => bunnies = <<>>

\* C9 witness: a ctrl + delete tick ran on fewer than INITIAL_BUNNIES bunnies
\* and removed them all.
C9_Witness ==
    /\ Ticked /\ delete_held /\ ctrl_held /\ ~add_held
    /\ last.count > 0 /\ last.count < INITIAL_BUNNIES
    /\ bunnies = <<>>

\* C10: a bunny whose position.x + velocity.x exceeds max_x leaves the
\* integration step at position.x = max_x with velocity.x negated, one for
\* which it is below 0 leaves it at position.x = 0 with velocity.x negated;
\* so a bunny entering at max_x + 1 with velocity.x = 2 leaves at max_x with
\* velocity.x = -2.
C10_HorizontalBounce ==
    Ticked =>
        \A i \in 1 .. Len(bunnies) :
            LET x  == last.entered[i].position[1]
                vx == last.entered[i].velocity[1]
            IN  /\ x + vx > max_x =>
                     bunnies[i].position[1] = max_x /\ bunnies[i].velocity[1] = -vx
                /\ x + vx < 0 =>
                     bunnies[i].position[1] = 0 /\ bunnies[i].velocity[1] = -vx
                /\ (x = max_x + Unit /\ vx = 2 * Unit) =>
                     bunnies[i].position[1] = max_x /\ bunnies[i].velocity[1] = -2 * Unit

\* C10 witness: one bunny entered at max_x + 1 with velocity.x = 2 and left
\* at max_x with -2, another bounced off the left edge.
C10_Witness ==
    /\ Ticked
    /\ \E i \in 1 .. Len(bunnies) :
         /\ last.entered[i].position[1] = max_x + Unit
         /\ last.entered[i].velocity[1] = 2 * Unit
         /\ bunnies[i].position[1] = max_x
         /\ bunnies[i].velocity[1] = -2 * Unit
    /\ \E j \in 1 .. Len(bunnies) :
         /\ last.entered[j].position[1] + last.entered[j].velocity[1] < 0
         /\ bunnies[j].position[1] = 0

\* C11: batched_drawing has its initial value exactly when an even number of
\* Space key-downs was handled: two of them bring it back to what it was,
\* from either value and whatever ticks, frames and other events come in
\* between, and nothing else changes it.
C11_ToggleTwiceRestores ==
    batched_drawing = (toggles = 0)

\* C11 witness: a frame was drawn in the naive mode after ticks ran, and a
\* second Space key-down has brought batched drawing back.
C11_Witness ==
    /\ toggles = 0 /\ batched_drawing
    /\ last.op = "draw" /\ ticks > 0
    /\ Len(frame.calls) > 1
    /\ frame.calls[1].image = "texture"

\* C12: add_held, delete_held and ctrl_held are changed by input events only:
\* no call of update, whatever ticks it runs, and no frame changes any of
\* them, so a flag a press set is still set after every tick until the
\* release is handled.  (max_x and max_y are never assigned after
\* GameState::new: they are definitions here.)
C12_FlagsOnlyByInput ==
    [][ (pc' # pc) => UNCHANGED <<add_held, delete_held, ctrl_held>> ]_vars

\* C12 witness: an update ran two ticks with the three flags set, and they
\* are still set.
C12_Witness ==
    /\ Ticked /\ last.ran > 1
    /\ add_held /\ delete_held /\ ctrl_held

\* C13: in a tick with add_held and delete_held both set the add phase runs
\* before the delete phase, which counts and draws its indices over the
\* Vec with the bunnies spawned in that tick: the Vec that enters the
\* integration loop and the Vec after the tick hold as many bunnies as before
\* the tick, from every count (0 too), with and without ctrl_held.
C13_AddThenDeleteKeepsCount ==
    (Ticked /\ add_held /\ delete_held) =>
        /\ Len(last.entered) = last.count
        /\ Len(bunnies) = last.count

\* C13 witness: such a tick ran on an empty Vec without ctrl: the bunny it
\* spawned at the cursor was removed in the same tick.
C13_Witness ==
    /\ Ticked /\ add_held /\ delete_held /\ ~ctrl_held
    /\ last.count = 0
    /\ last.cursor # <<>>
    /\ bunnies = <<>>

\* C14: bunnies enter and leave the Vec through the add phase, the delete
\* phase and the clear only.  A step that changes the Vec's length is a clear
\* or an update that ran a tick with add_held or delete_held set; an update
\* with neither set leaves the length as it was and, in its one tick, takes
\* the very bunnies of before into the integration loop; an update of one
\* tick with delete_held alone (no ctrl, no add) on a Vec that is not empty
\* removes exactly one bunny of it.
C14_MembershipOnlyByAddDeleteClear ==
    [][ /\ Len(bunnies') # Len(bunnies) =>
             \/ last'.op = "clear"
             \/ last'.op = "update" /\ last'.ran > 0 /\ (add_held \/ delete_held)
        /\ (pc = "poll" /\ pc' = "draw" /\ ~add_held /\ ~delete_held) =>
             /\ Len(bunnies') = Len(bunnies)
             /\ last'.ran = 1 => last'.entered = bunnies
        /\ (pc = "poll" /\ pc' = "draw" /\ last'.ran = 1 /\ ~panicked'
              /\ delete_held /\ ~ctrl_held /\ ~add_held /\ bunnies # <<>>) =>
             /\ Len(bunnies') = Len(bunnies) - 1
             /\ Len(last'.entered) = Len(bunnies) - 1
             /\ IsSubSeq(last'.entered, bunnies) ]_vars

\* C14 witness: an update of one tick with delete_held alone ran on a full
\* Vec and left one bunny fewer.
C14_Witness ==
    /\ Ticked /\ last.ran = 1
    /\ delete_held /\ ~ctrl_held /\ ~add_held
    /\ last.count = MaxBunnies
    /\ Len(bunnies) = MaxBunnies - 1

\* C15: rendering reads the simulation and does not write it: a frame, in the
\* batched and in the naive mode, leaves the Vec (the number of bunnies, each
\* position and velocity), the click timer and the timer's residual as they
\* were, and so does a call of update that finds no tick due; any number of
\* frames between two ticks leaves the bunnies as the first tick left them.
C15_DrawReadsOnly ==
    [][ /\ (pc = "draw" /\ pc' = "poll") =>
             UNCHANGED <<bunnies, click_timer, acc, ticks>>
        /\ (pc = "poll" /\ pc' = "draw" /\ last'.ran = 0) =>
             UNCHANGED <<bunnies, click_timer>> ]_vars

\* C15 witness: a batched frame of a full Vec was drawn after a tick, and the
\* Vec is still full.
C15_Witness ==
    /\ last.op = "draw" /\ ticks > 0
    /\ last.count = MaxBunnies
    /\ Len(bunnies) = MaxBunnies
    /\ Len(frame.calls) = 1
    /\ Len(frame.calls[1].sprites) = MaxBunnies

\* C16: a call of update runs the tick body once per whole tick quantum the
\* timer held when it was entered (none, one or several) and returns with
\* less than a quantum left; in a tick the add and delete phases are over
\* before the integration loop starts, and the loop moves every bunny they
\* left exactly once: by one step of its velocity, clamped to the field.
C16_OneTickPerQuantum ==
    (last.op = "update" /\ ~panicked) =>
        /\ last.ran = last.pending
        /\ acc < TickQuantum
        /\ last.ran > 0 =>
             /\ Len(last.entered) = Len(bunnies)
             /\ \A i \in 1 .. Len(bunnies) :
                  LET e == last.entered[i]
                  IN  bunnies[i].position =
                        << Clamp(e.position[1] + e.velocity[1], 0, max_x),
                           Clamp(e.position[2] + e.velocity[2], 0, max_y) >>

\* C16 witness: a call of update found two quanta pending, ran two ticks on
\* a Vec that was not empty and left no quantum.
C16_Witness ==
    /\ last.op = "update" /\ ~panicked
    /\ last.pending = 2 /\ last.ran = 2
    /\ acc < TickQuantum
    /\ Len(bunnies) > 1

\* C17: a frame makes exactly one graphics::draw call in the batched mode,
\* whatever the Vec holds (nothing too), and exactly one per bunny in the
\* naive mode (none for an empty Vec).
C17_DrawCallCount ==
    [][ (pc = "draw" /\ pc' = "poll") =>
           /\ frame'.presented
           /\ Len(frame'.calls) = IF batched_drawing THEN 1 ELSE Len(bunnies) ]_vars

\* C17 witness: a frame of an empty Vec was drawn in the batched mode, with
\* one call that draws no sprite.
C17_Witness ==
    /\ last.op = "draw" /\ last.count = 0
    /\ frame.presented
    /\ Len(frame.calls) = 1
    /\ frame.calls[1].image = "bunnybatch"
    /\ frame.calls[1].sprites = <<>>

\* C18: every position a frame draws lies within 0 <= x <= max_x and
\* 0 <= y <= max_y: when draw is about to run every bunny of the Vec has
\* been moved and clamped by the tick that spawned it, and the bunnies
\* GameState::new creates at (0, 0) are in bounds before any tick.
C18_DrawnPositionsInBounds ==
    /\ \A i \in 1 .. Len(Sprites(frame.calls)) :
          LET p == Sprites(frame.calls)[i]
          IN  0 <= p[1] /\ p[1] <= max_x /\ 0 <= p[2] /\ p[2] <= max_y
    /\ (pc = "draw" /\ ~panicked) => \A i \in 1 .. Len(bunnies) : InBounds(bunnies[i])
    /\ ticks = 0 => \A i \in 1 .. Len(bunnies) : bunnies[i].position = <<0, 0>>

\* C18 witness: the first frame was drawn before any tick ran and shows the
\* INITIAL_BUNNIES bunnies at (0, 0).
C18_Witness ==
    /\ last.op = "draw" /\ ticks = 0
    /\ frame.presented
    /\ Len(Sprites(frame.calls)) = INITIAL_BUNNIES
    /\ \A i \in 1 .. INITIAL_BUNNIES : Sprites(frame.calls)[i] = <<0, 0>>

\* C19 as stated: in every reachable state ctrl_held is TRUE exactly when
\* the left or the right control key is down, for every order of presses and
\* releases of the two keys.
C19_AsStated ==
    ctrl_held <=> ({"LControl", "RControl"} \cap held # {})

\* C20 as stated: batched_drawing flips exactly once per press of Space: it
\* changes in the step in which Space goes down and in no other, so not in a
\* key-down repeated while Space stays down.
C20_AsStated ==
    [][ (batched_drawing' # batched_drawing)
          <=> ("Space" \notin held /\ "Space" \in held') ]_vars

=============================================================================
